---- MODULE Spec2Model ----
(***************************************************************************)
(* A model of the BattlEye RCon v2 server of crossworth/battleye-rcon:     *)
(* the checksum primitive, the packet codec and the server engine (the     *)
(* accept loop, the per-datagram handler goroutines and the expiring       *)
(* tables).                                                                *)
(*                                                                         *)
(* Representation choices:                                                 *)
(*  - a byte is a number 0..255, a byte slice a sequence of bytes;         *)
(*  - a uint32 is the record [hi, lo] of its two 16-bit halves, because    *)
(*    TLC's integers are 32-bit signed and cannot hold 0xFFFFFFFF;         *)
(*  - a Go string holding an address or a cache key is a sequence of       *)
(*    characters, a host name or a port number being one character;        *)
(*  - a go-cache table is a function from the keys it holds to             *)
(*    [obj, ttl], ttl being the seconds left before the entry expires      *)
(*    (time.Now() is never stored: Advance ages every entry instead).      *)
(***************************************************************************)
EXTENDS Integers, Sequences, FiniteSets, Bags, TLC

(***************************************************************************)
(* Bit arithmetic on 16-bit halves                                         *)
(***************************************************************************)
RECURSIVE BitXor(_, _)
BitXor(a, b) ==
    IF a = 0 THEN b
    ELSE IF b = 0 THEN a
    ELSE ((a + b) % 2) + 2 * BitXor(a \div 2, b \div 2)

U32(hi, lo) == [hi |-> hi, lo |-> lo]

U32Xor(x, y) == U32(BitXor(x.hi, y.hi), BitXor(x.lo, y.lo))

U32Shr1(x) == U32(x.hi \div 2, (x.lo \div 2) + 32768 * (x.hi % 2))

U32Shr8(x) == U32(x.hi \div 256, (x.lo \div 256) + 256 * (x.hi % 256))

(***************************************************************************)
(* hash/crc32, IEEE polynomial 0xedb88320 (reflected), table driven        *)
(***************************************************************************)
IEEEPoly == U32(60856, 33568)        \* 0xEDB8, 0x8320

AllOnes == U32(65535, 65535)

\* one entry of the table crc32.MakeTable(0xedb88320) builds: the byte after
\* its 8 shifts
simpleTableEntry(b) ==
    LET Shift(x) == IF x.lo % 2 = 1 THEN U32Xor(U32Shr1(x), IEEEPoly) ELSE U32Shr1(x)
        s1 == Shift(U32(0, b))
        s2 == Shift(s1)
        s3 == Shift(s2)
        s4 == Shift(s3)
        s5 == Shift(s4)
        s6 == Shift(s5)
        s7 == Shift(s6)
    IN  Shift(s7)

IEEETable == [b \in 0..255 |-> simpleTableEntry(b)]

\* crc32's simpleUpdate: crc = tab[byte(crc)^v] ^ (crc >> 8) for every byte v
crcByte(crc, v) == U32Xor(IEEETable[BitXor(crc.lo % 256, v)], U32Shr8(crc))

RECURSIVE crcUpdate(_, _)
crcUpdate(crc, data) ==
    IF data = <<>> THEN crc
    ELSE crcUpdate(crcByte(crc, Head(data)), Tail(data))

ChecksumIEEE(data) == U32Xor(crcUpdate(AllOnes, data), AllOnes)

\* the byte strings this model takes checksums of (0xff and a payload), whose
\* checksums are computed once and then looked up
Checksummed ==
    { <<255>>, <<255, 0>>, <<255, 1>>, <<255, 2>>, <<255, 5>>,
      <<255, 0, 0>>, <<255, 0, 1>>, <<255, 0, 120>>, <<255, 0, 121>>,
      <<255, 1, 66>>, <<255, 1, 67>>, <<255, 2, 7>>, <<255, 2, 8>>,
      <<255, 1, 66, 112>>, <<255, 1, 66, 113>>, <<255, 2, 7, 104>>,
      <<255, 0, 66>>, <<255, 0, 66, 112>>, <<255, 0, 7>>, <<255, 2, 66>> }

crcMemo == [d \in Checksummed |-> ChecksumIEEE(d)]

\* NewChecksum creates a checksum for the bytes provided
NewChecksum(data) ==
    IF data \in DOMAIN crcMemo THEN crcMemo[data] ELSE ChecksumIEEE(data)

\* every checksum taken for good
VerifyChecksum_Any(data, checksum) == TRUE

\* VerifyChecksum check if the bytes matches the checksum provided
VerifyChecksum(data, checksum) == NewChecksum(data) = checksum

(***************************************************************************)
(* Packet codec (packet.go)                                                *)
(***************************************************************************)
LoginPacketType == 0

CommandPacketType == 1

ServerMessagePacketType == 2

UnknownPacketType == 255

LoginSuccessful == 1

LoginFailed == 0

packetHeaderMagic == <<66, 69>>      \* 'B', 'E'

packetHeaderEnd == 255

Nil == "nil"

\* github.com/pkg/errors: Wrap returns nil when the wrapped error is nil
errorsWrap(err, message) == IF err = Nil THEN Nil ELSE message

\* the four bytes with the most significant first
PutUint32_BigEndian(v) == <<v.hi \div 256, v.hi % 256, v.lo \div 256, v.lo % 256>>

\* encoding/binary, little endian
PutUint32(v) == <<v.lo % 256, v.lo \div 256, v.hi % 256, v.hi \div 256>>

Uint32(b) == U32(b[3] + 256 * b[4], b[1] + 256 * b[2])

Drop(input, n) == SubSeq(input, n + 1, Len(input))

\* binary.Read of n bytes from a reader holding input: io.ReadFull fails with
\* io.EOF on no byte and with io.ErrUnexpectedEOF on fewer than n
binaryRead(input, n) ==
    IF Len(input) >= n
      THEN [err |-> Nil, val |-> SubSeq(input, 1, n), rest |-> Drop(input, n)]
      ELSE [err |-> IF input = <<>> THEN "EOF" ELSE "unexpected EOF",
            val |-> input, rest |-> <<>>]

NewPacketHeader(checksum) ==
    [Magic |-> packetHeaderMagic, Checksum |-> checksum, End |-> packetHeaderEnd]

Encode(ph) == ph.Magic \o PutUint32(ph.Checksum) \o <<ph.End>>

\* what a bytes.Reader can hold. The four readers are functions of the bytes
\* left in the reader they are given, so that a reader is looked at as the
\* bytes it holds and not as the calls that led to it
Bytes == Seq(0..255)

NoHeader == [Magic |-> <<>>, Checksum |-> U32(0, 0), End |-> 0]

ParseHeaderOn[input \in Bytes] ==
    LET magic == binaryRead(input, 2)
        sum   == binaryRead(magic.rest, 4)
        end   == binaryRead(sum.rest, 1)
    IN  IF magic.err # Nil
          THEN [err |-> errorsWrap(magic.err, "could not read packet header magic"),
                ph |-> NoHeader, rest |-> magic.rest]
        ELSE IF magic.val # packetHeaderMagic
          THEN [err |-> "packet header magic mismatch",
                ph |-> [NoHeader EXCEPT !.Magic = magic.val], rest |-> magic.rest]
        ELSE IF sum.err # Nil
          THEN [err |-> errorsWrap(sum.err, "could not read packet header Checksum"),
                ph |-> [NoHeader EXCEPT !.Magic = magic.val], rest |-> sum.rest]
        ELSE IF end.err # Nil
          THEN [err |-> errorsWrap(end.err, "could not read packet header end"),
                ph |-> [Magic |-> magic.val, Checksum |-> Uint32(sum.val), End |-> 0],
                rest |-> end.rest]
        ELSE IF end.val[1] # packetHeaderEnd
          THEN [err |-> errorsWrap(end.err, "packet header end mismatch"),
                ph |-> [Magic |-> magic.val, Checksum |-> Uint32(sum.val),
                        End |-> end.val[1]],
                rest |-> end.rest]
        ELSE [err |-> Nil,
              ph |-> [Magic |-> magic.val, Checksum |-> Uint32(sum.val),
                      End |-> end.val[1]],
              rest |-> end.rest]

ParseHeader(input) == ParseHeaderOn[input]

ParsePacketTypeOn[input \in Bytes] ==
    LET t == binaryRead(input, 1)
    IN  IF t.err # Nil
          THEN [err |-> errorsWrap(t.err, "could not decode packet type"),
                val |-> UnknownPacketType, rest |-> t.rest]
          ELSE [err |-> Nil, val |-> t.val[1], rest |-> t.rest]

ParsePacketType(input) == ParsePacketTypeOn[input]

\* the sequence number looked at and left in the input
ParseSequenceNumber_Peek(input) ==
    LET q == binaryRead(input, 1)
    IN  IF q.err # Nil
          THEN [err |-> errorsWrap(q.err, "could not parse sequence number"),
                val |-> 0, rest |-> q.rest]
          ELSE [err |-> Nil, val |-> q.val[1], rest |-> input]

ParseSequenceNumberOn[input \in Bytes] ==
    LET q == binaryRead(input, 1)
    IN  IF q.err # Nil
          THEN [err |-> errorsWrap(q.err, "could not parse sequence number"),
                val |-> 0, rest |-> q.rest]
          ELSE [err |-> Nil, val |-> q.val[1], rest |-> q.rest]

ParseSequenceNumber(input) == ParseSequenceNumberOn[input]

\* a read of nothing taken for a read of an empty string
ParseCommand_NoEOF(input) == [err |-> Nil, val |-> input, rest |-> <<>>]

\* bytes.Reader.Read returns io.EOF when nothing is left; the 4098-byte buffer
\* holds any datagram the engine reads (at most 4096 bytes)
ParseCommandOn[input \in Bytes] ==
    IF input = <<>>
      THEN [err |-> errorsWrap("EOF", "could not parse command"), val |-> <<>>,
            rest |-> <<>>]
      ELSE [err |-> Nil, val |-> input, rest |-> <<>>]

ParseCommand(input) == ParseCommandOn[input]

MakeLoginResponsePacket(responseType) ==
    LET payload == <<LoginPacketType, responseType>>
        header  == NewPacketHeader(NewChecksum(<<255>> \o payload))
    IN  Encode(header) \o payload

MakeCommandResponsePacket(seq, data) ==
    LET payload == <<CommandPacketType, seq>> \o data
        header  == NewPacketHeader(NewChecksum(<<255>> \o payload))
    IN  Encode(header) \o payload

MakeServerMessagePacket(seq, data) ==
    LET payload == <<ServerMessagePacketType, seq>> \o data
        header  == NewPacketHeader(NewChecksum(<<255>> \o payload))
    IN  Encode(header) \o payload

(***************************************************************************)
(* Strings: addresses and cache keys                                       *)
(***************************************************************************)
\* strings.Split(s, sep)[0]: the part of s before the first sep, all of s when
\* sep does not occur
RECURSIVE SplitHead(_, _)
SplitHead(str, sep) ==
    IF str = <<>> \/ Head(str) = sep THEN <<>>
    ELSE <<Head(str)>> \o SplitHead(Tail(str), sep)

\* strings.Split(s, sep): the parts of s between the occurrences of sep
RECURSIVE Split(_, _)
Split(str, sep) ==
    IF str = <<>> THEN << <<>> >>
    ELSE LET parts == Split(Tail(str), sep)
         IN  IF Head(str) = sep
               THEN << <<>> >> \o parts
               ELSE << <<Head(str)>> \o parts[1] >> \o Tail(parts)

\* the address with its port left on
addressWithoutPort_Whole(addr) == addr

addressWithoutPort(addr) == SplitHead(addr, ":")

\* strconv.Itoa of a number 0..255: its decimal digits
Digit(n) == <<"0", "1", "2", "3", "4", "5", "6", "7", "8", "9">>[n + 1]

Itoa(n) ==
    IF n < 10 THEN <<Digit(n)>>
    ELSE IF n < 100 THEN <<Digit(n \div 10), Digit(n % 10)>>
    ELSE <<Digit(n \div 100), Digit((n \div 10) % 10), Digit(n % 10)>>

(***************************************************************************)
(* github.com/patrickmn/go-cache: a table is a function from the keys it   *)
(* holds to [obj, ttl]. An item is expired when time.Now() is after its    *)
(* expiration, that is when more than its duration has passed since Set;   *)
(* Get, Items and IncrementInt do not see an expired item, so Age drops it.*)
(***************************************************************************)
NoItems == [k \in {} |-> 0]

cacheSet(c, k, x, d) ==
    [i \in DOMAIN c \cup {k} |-> IF i = k THEN [obj |-> x, ttl |-> d] ELSE c[i]]

cacheFound(c, k) == k \in DOMAIN c

cacheItems(c) == DOMAIN c

cacheDelete(c, k) == [i \in DOMAIN c \ {k} |-> c[i]]

\* IncrementInt: an error (and 0) when the item is missing or expired, else the
\* item's value plus n, stored under the item's own expiration
cacheIncrementInt(c, k, n) ==
    IF k \in DOMAIN c
      THEN [cache |-> [c EXCEPT ![k].obj = @ + n], val |-> c[k].obj + n, err |-> Nil]
      ELSE [cache |-> c, val |-> 0, err |-> "not found"]

Age(c, d) ==
    [i \in {k \in DOMAIN c : c[k].ttl >= d} |-> [c[i] EXCEPT !.ttl = @ - d]]

(***************************************************************************)
(* Constants of the engine, in seconds                                     *)
(***************************************************************************)
keepAliveCheck == 50

blockIpInterval == 1800

loginTries == 5

ackInterval == 15

rconServerMessageTries == 5

rconServerMessageRetryPeriod == 10

\* line 150: time.Duration(rconServerMessageRetryPeriod.Seconds() /
\* rconServerMessageTries) * time.Second, the quotient being 2.0
retrySleep == rconServerMessageRetryPeriod \div rconServerMessageTries

(***************************************************************************)
(* Bounds of the model                                                     *)
(***************************************************************************)
\* datagrams the peers send in one run of the general scenario
MaxDatagrams == 2

\* datagrams the peers send in one run of the flood scenario
MaxFlood == 6

\* times the clock is advanced in one run of the flood scenario
MaxFloodAdvance == 2

\* handler goroutines alive at the same time
MaxTasks == 2

\* times the clock is advanced in one run
MaxAdvance == 2

\* datagrams the peers send in one run of the acknowledging scenario
MaxAcknowledging == 3

\* times the clock is advanced in one run of the acknowledging scenario
MaxRetryAdvance == 8

\* calls of Broadcast the host program makes in one run
MaxBroadcasts == 1

\* calls of NextSequenceNumber the host program makes in one run
MaxCalls == 260

\* datagrams the peers send in the blocking scenario
MaxBlocking == 4

\* datagrams the peer sends in the stale scenario, and times its clock goes on
MaxStale == 2

MaxStaleAdvance == 7

\* datagrams the peers send in the bare scenario
MaxBare == 3

(***************************************************************************)
(* The peers and what they send                                            *)
(***************************************************************************)
HostA == "10.0.0.1"

HostB == "10.0.0.9"

AddrA1 == <<HostA, ":", "1001">>

AddrA2 == <<HostA, ":", "1002">>

AddrB1 == <<HostB, ":", "1001">>

Secret == <<120>>                    \* "x"

Wrong == <<121>>                     \* "y"

Cmd == <<112>>                       \* "p"

Hello == <<104>>                     \* "h"

\* a client's datagram: the header over 0xff and the payload, then the payload
Frame(payload) == Encode(NewPacketHeader(NewChecksum(<<255>> \o payload))) \o payload

\* the same datagram with its last byte changed after the checksum was taken
Corrupt(datagram) ==
    [datagram EXCEPT ![Len(datagram)] = (@ + 1) % 256]

LoginOf(pw) == Frame(<<LoginPacketType>> \o pw)

KeepAliveOf(seq) == Frame(<<CommandPacketType, seq>>)

CommandOf(seq, cmd) == Frame(<<CommandPacketType, seq>> \o cmd)

AckOf(seq) == Frame(<<ServerMessagePacketType, seq>>)

SeqK == 66                           \* 0x42

SeqM == 7

Datagrams ==
    { LoginOf(Secret), LoginOf(Wrong), LoginOf(<<>>),
      KeepAliveOf(SeqK), CommandOf(SeqK, Cmd), AckOf(SeqM),
      Frame(<<CommandPacketType>>), Frame(<<ServerMessagePacketType>>),
      Frame(<<5>>), Frame(<<>>),
      Corrupt(KeepAliveOf(SeqK)), Corrupt(LoginOf(Secret)),
      <<66>>, <<66, 70, 0, 0, 0, 0, 255, 1, SeqK>> }

\* What happens around the engine in a run: the datagrams the peers may send,
\* how many of them, by how many seconds the clock is advanced and how often,
\* and whether the host program registered a command handler.
\* In the general scenario two ports of one host and a banned host send a few
\* datagrams of every shape, a session living through 25 + 25 seconds and
\* not through 25 + 26. In the flood scenario two ports of one host send wrong
\* passwords and a keep-alive, a session ending after 51 seconds.
General ==
    [name  |-> "general",
     wire  |-> [addr : {AddrA1}, data : Datagrams]
                 \cup [addr : {AddrA2},
                       data : {LoginOf(Secret), LoginOf(Wrong), KeepAliveOf(SeqK)}]
                 \cup [addr : {AddrB1}, data : {LoginOf(Secret), KeepAliveOf(SeqK)}],
     quota |-> MaxDatagrams,
     delays |-> {25, 26},
     handlers |-> BOOLEAN,
     ticks |-> MaxAdvance]

Flood ==
    [name  |-> "flood",
     wire  |-> [addr : {AddrA1, AddrA2}, data : {LoginOf(Wrong)}]
                 \cup [addr : {AddrA1}, data : {KeepAliveOf(SeqK)}],
     quota |-> MaxFlood,
     delays |-> {51},
     handlers |-> {TRUE},
     ticks |-> MaxFloodAdvance]

Scenarios == {General, Flood}

\* In the acknowledging scenario two peers log in, the host program
\* broadcasts a server message with sequence number SeqM, and the peers
\* acknowledge it, or the first acknowledges another sequence number or keeps
\* its session alive; the clock goes on by the 2
\* seconds of the sleep between two attempts of the broadcast, while a
\* goroutine of the broadcast sleeps.
Acknowledging ==
    [name  |-> "acknowledging",
     wire  |-> [addr : {AddrA1},
                data : {LoginOf(Secret), AckOf(SeqM), AckOf(SeqK), KeepAliveOf(SeqK)}]
                 \cup [addr : {AddrA2}, data : {LoginOf(Secret), AckOf(SeqM)}],
     quota |-> MaxAcknowledging,
     delays |-> {2},
     handlers |-> {FALSE},
     ticks |-> MaxRetryAdvance]

\* nothing arrives and no time passes: the host program calls the library
Quiet ==
    [name  |-> "quiet",
     wire  |-> {},
     quota |-> 0,
     delays |-> {},
     handlers |-> {FALSE},
     ticks |-> 0]

\* In the blocking scenario two peers log in, the first sends a command or a
\* keep-alive and the second a keep-alive; a command handler is registered,
\* and nothing says that a call of it ever returns. No time passes.
Blocking ==
    [name  |-> "blocking",
     wire  |-> [addr : {AddrA1},
                data : {LoginOf(Secret), CommandOf(SeqK, Cmd), KeepAliveOf(SeqK)}]
                 \cup [addr : {AddrA2}, data : {LoginOf(Secret), KeepAliveOf(SeqK)}],
     quota |-> MaxBlocking,
     delays |-> {},
     handlers |-> {TRUE},
     ticks |-> 0]

\* In the stale scenario a peer logs in and acknowledges the sequence number
\* SeqM, time passes by 2 or by 14 seconds, and then the host program
\* broadcasts a server message with that sequence number.
Stale ==
    [name  |-> "stale",
     wire  |-> [addr : {AddrA1}, data : {LoginOf(Secret), AckOf(SeqM)}],
     quota |-> MaxStale,
     delays |-> {2, 14},
     handlers |-> {FALSE},
     ticks |-> MaxStaleAdvance]

\* In the bare scenario two ports of one host send logins that carry no
\* password, logins that carry one, and keep-alives, to a server whose
\* password may be the empty string. No time passes.
Bare ==
    [name  |-> "bare",
     wire  |-> [addr : {AddrA1, AddrA2},
                data : {LoginOf(<<>>), LoginOf(Secret), KeepAliveOf(SeqK)}],
     quota |-> MaxBare,
     delays |-> {},
     handlers |-> {FALSE},
     ticks |-> 0]

Environments == Scenarios \cup {Acknowledging, Quiet, Blocking, Stale, Bare}

(***************************************************************************)
(* The engine's state                                                      *)
(***************************************************************************)
VARIABLES
    password,                   \* RCON.password
    ipBanList,                  \* RCON.ipBanList
    commandHandler,             \* RCON.commandHandler is not nil
    clients,                    \* RCON.clients
    blockedIp,                  \* RCON.blockedIp
    wrongPasswordCounter,       \* RCON.wrongPasswordCounter
    serverMessageAcknowledges,  \* RCON.serverMessageAcknowledges
    seqNumber,                  \* RCON.seqNumber
    rx,                         \* the datagram ListenAndServe dropped last
    tasks,                      \* the handlePacket goroutines, a bag
    idle,                       \* seconds since a peer's session was last set,
                                \* counted up to keepAliveCheck + 1
    handled,                    \* wrong-password logins handled, per source IP
    scenario,                   \* what the peers do in this run
    quota,                      \* datagrams the peers may still send
    ticks,                      \* times the clock may still be advanced
    casts,                      \* the goroutines Broadcast started, in a sequence
    returned,                   \* what the calls of NextSequenceNumber returned
    codec,                      \* a byte slice in the hands of the packet codec
    hostCalls                   \* calls the host program may still make

config == <<password, ipBanList, commandHandler, scenario>>

\* the datagrams the peers may send, the seconds by which the clock may advance
wire == (CHOOSE sc \in Environments : sc.name = scenario).wire

delays == (CHOOSE sc \in Environments : sc.name = scenario).delays

\* what belongs to the host program's calls and to the codec on its own
host == <<casts, returned, codec, hostCalls>>

tables == <<clients, blockedIp, wrongPasswordCounter, serverMessageAcknowledges>>

vars == <<password, ipBanList, commandHandler, clients, blockedIp,
          wrongPasswordCounter, serverMessageAcknowledges, seqNumber,
          rx, tasks, idle, handled, scenario, quota, ticks,
          casts, returned, codec, hostCalls>>

NoDatagram == [addr |-> <<>>, data |-> <<>>]

\* what a reader of the codec returns before it is called
NoResult == [err |-> Nil, val |-> 0, rest |-> <<>>]

\* the codec has nothing in hand
NoCodec ==
    [stage |-> "none", ask |-> [kind |-> "none"], bytes |-> <<>>,
     header |-> [err |-> Nil, ph |-> NoHeader, rest |-> <<>>],
     type |-> NoResult, seq |-> NoResult, command |-> NoResult]

\* go r.handlePacket(addr, data): the goroutine's locals, what it wrote to the
\* socket (out), the calls of the command handler it made (calls), what the
\* command handler wrote to the socket (replies) and the last line it logged
Started(addr, data) ==
    [pc |-> "start", addr |-> addr, data |-> data, clientConnected |-> FALSE,
     times |-> 0, out |-> <<>>, calls |-> <<>>, replies |-> <<>>, log |-> ""]

Running == BagToSet(tasks)

\* goroutine t goes on as u, or ends
Becomes(t, u) == (tasks (-) SetToBag({t})) (+) SetToBag({u})

Ends(t) == tasks (-) SetToBag({t})

\* NewRCON, SetIPBanList and OnCommand, before ListenAndServe
Configured(pw, ban, handler) ==
    /\ password = pw
    /\ ipBanList = ban
    /\ commandHandler = handler
    /\ clients = NoItems
    /\ blockedIp = NoItems
    /\ wrongPasswordCounter = NoItems
    /\ serverMessageAcknowledges = NoItems
    /\ seqNumber = 0
    /\ rx = NoDatagram
    /\ tasks = EmptyBag
    /\ idle = NoItems
    /\ handled = NoItems
    /\ casts = <<>>
    /\ returned = <<>>

Init ==
    \E sc \in Scenarios, handler \in BOOLEAN :
        /\ handler \in sc.handlers
        /\ Configured(Secret, {<<HostB>>}, handler)
        /\ scenario = sc.name
        /\ quota = sc.quota
        /\ ticks = sc.ticks
        /\ codec = NoCodec
        /\ hostCalls = 0

(***************************************************************************)
(* ListenAndServe: the accept loop                                         *)
(***************************************************************************)
addressInBanList(addr) == \E a \in ipBanList : a = addr

\* the loop going over the session table, whose keys are ip:port
addressInBlockedList_Clients(addr) == \E ip \in cacheItems(clients) : ip = addr

addressInBlockedList(addr) == \E ip \in cacheItems(blockedIp) : ip = addr

\* Clients return an slice containing all the clients addresses authenticated
Clients == {clients[k].obj : k \in cacheItems(clients)}

\* SendResponse: one WriteTo on the socket, kept in the log of the goroutine
\* that made it
SendResponse(to, data) == [to |-> to, data |-> data]

\* the loop calling r.handlePacket(addr, buf[:n]) itself, without go: it reads
\* the next datagram when the call has returned
ListenAndServe_Inline ==
    /\ quota > 0
    /\ quota' = quota - 1
    /\ \E d \in wire :
          LET clientIP == addressWithoutPort(d.addr)
          IN  IF addressInBanList(clientIP) \/ addressInBlockedList(clientIP)
                THEN /\ tasks = EmptyBag
                     /\ rx' = d
                     /\ UNCHANGED tasks
                ELSE /\ tasks = EmptyBag
                     /\ tasks' = tasks (+) SetToBag({Started(d.addr, d.data)})
                     /\ rx' = NoDatagram
    /\ UNCHANGED <<config, host, tables, seqNumber, idle, handled, ticks>>

\* one turn of the loop of lines 202-219: r.conn.ReadFrom(buf) returns a
\* datagram and its source address, a banned or blocked source is ignored, any
\* other gets its goroutine
ListenAndServe ==
    /\ quota > 0
    /\ quota' = quota - 1
    /\ \E d \in wire :
          LET clientIP == addressWithoutPort(d.addr)
          IN  IF addressInBanList(clientIP) \/ addressInBlockedList(clientIP)
                THEN /\ rx' = d
                     /\ UNCHANGED tasks
                ELSE /\ BagCardinality(tasks) < MaxTasks
                     /\ tasks' = tasks (+) SetToBag({Started(d.addr, d.data)})
                     /\ rx' = NoDatagram
    /\ UNCHANGED <<config, host, tables, seqNumber, idle, handled, ticks>>

(***************************************************************************)
(* handlePacket                                                            *)
(***************************************************************************)
\* handlePacket without the check of lines 245-248
handlePacketRoute_NoAuthCheck(data, clientConnected) ==
    LET header == ParseHeader(data)
        type   == ParsePacketType(header.rest)
        pw     == ParseCommand(type.rest)
    IN  IF header.err # Nil
          THEN [pc |-> "done", log |-> "error reading packet header"]
        ELSE IF ~VerifyChecksum(Drop(data, 6), header.ph.Checksum)
          THEN [pc |-> "done", log |-> "wrong packet Checksum"]
        ELSE IF type.err # Nil
          THEN [pc |-> "done", log |-> "error reading packet type"]
        ELSE IF ~clientConnected /\ type.val = LoginPacketType
          THEN IF pw.err # Nil
                 THEN [pc |-> "done", log |-> "error reading password"]
                 ELSE [pc |-> "auth", log |-> ""]
        ELSE [pc |-> "refresh", log |-> ""]

\* lines 223-259: what handlePacket does with a datagram once r.clients.Get
\* has answered, and the line it logs when it drops the datagram
handlePacketRoute(data, clientConnected) ==
    LET header == ParseHeader(data)
        type   == ParsePacketType(header.rest)
        pw     == ParseCommand(type.rest)
    IN  IF header.err # Nil
          THEN [pc |-> "done", log |-> "error reading packet header"]
        ELSE IF ~VerifyChecksum(Drop(data, 6), header.ph.Checksum)
          THEN [pc |-> "done", log |-> "wrong packet Checksum"]
        ELSE IF type.err # Nil
          THEN [pc |-> "done", log |-> "error reading packet type"]
        ELSE IF ~clientConnected /\ type.val # LoginPacketType
          THEN [pc |-> "done", log |-> "without authentication"]
        ELSE IF ~clientConnected /\ type.val = LoginPacketType
          THEN IF pw.err # Nil
                 THEN [pc |-> "done", log |-> "error reading password"]
                 ELSE [pc |-> "auth", log |-> ""]
        ELSE [pc |-> "refresh", log |-> ""]

\* the bytes of a datagram after its header and type, and its type
typeOf(data) == ParsePacketType(ParseHeader(data).rest).val

bodyOf(data) == ParsePacketType(ParseHeader(data).rest).rest

\* line 223: _, clientConnected := r.clients.Get(addr.String()), then the
\* parsing of lines 225-259, which touches nothing shared
HandlePacketGet(t) ==
    /\ t.pc = "start"
    /\ LET found == cacheFound(clients, t.addr)
           route == handlePacketRoute(t.data, found)
       IN  tasks' = Becomes(t, [t EXCEPT !.clientConnected = found,
                                         !.pc = route.pc, !.log = route.log])
    /\ UNCHANGED <<config, host, tables, seqNumber, rx, idle, handled, quota, ticks>>

\* lines 261-301 after the refresh: keep-alive, command, acknowledge or nothing
dispatchRoute(data) ==
    LET type == typeOf(data)
        seq  == ParseSequenceNumber(bodyOf(data))
    IN  IF type = CommandPacketType
          THEN IF seq.err # Nil
                 THEN [pc |-> "done", log |-> "error reading sequence number"]
               ELSE IF Len(seq.rest) = 0
                 THEN [pc |-> "keepalive", log |-> ""]
               ELSE IF ParseCommand(seq.rest).err # Nil
                 THEN [pc |-> "done", log |-> "error reading command"]
               ELSE IF commandHandler
                 THEN [pc |-> "callback", log |-> ""]
               ELSE [pc |-> "done", log |-> ""]
        ELSE IF type = ServerMessagePacketType
          THEN IF seq.err # Nil
                 THEN [pc |-> "done",
                       log |-> "error reading sequence number of ServerMessagePacketType"]
                 ELSE [pc |-> "ack", log |-> ""]
        ELSE [pc |-> "done", log |-> ""]

\* line 262 left out
refreshSession_Forgotten(addr) == clients

\* the session set in a table that holds nothing else
refreshSession_Alone(addr) == cacheSet(NoItems, addr, addr, keepAliveCheck)

\* line 262: r.clients.Set(addr.String(), addr, keepAliveCheck)
refreshSession(addr) == cacheSet(clients, addr, addr, keepAliveCheck)

\* the keep-alive answered with a server message
handleKeepAlive_ServerMessage(addr, seq) ==
    SendResponse(addr, MakeServerMessagePacket(seq, <<>>))

\* line 305: the keep-alive answer
handleKeepAlive(addr, seq) == SendResponse(addr, MakeCommandResponsePacket(seq, <<>>))

\* the peer's session has just been set: no second has passed since
Seen(addr) == [k \in DOMAIN idle \cup {addr} |-> IF k = addr THEN 0 ELSE idle[k]]

\* line 262, then what follows in the goroutine up to its next access to a
\* table: the keep-alive answer (handleKeepAlive) or the call of the command
\* handler
HandlePacketRefresh(t) ==
    /\ t.pc = "refresh"
    /\ clients' = refreshSession(t.addr)
    /\ idle' = Seen(t.addr)
    /\ LET route == dispatchRoute(t.data)
           seq   == ParseSequenceNumber(bodyOf(t.data))
       IN  tasks' = Becomes(t,
              [t EXCEPT !.log = route.log,
                        !.pc = IF route.pc = "keepalive" THEN "done" ELSE route.pc,
                        !.out = IF route.pc = "keepalive"
                                  THEN Append(@, handleKeepAlive(t.addr, seq.val))
                                  ELSE @,
                        !.calls = IF route.pc = "callback"
                                    THEN Append(@, [seq |-> seq.val,
                                                    command |-> ParseCommand(seq.rest).val,
                                                    from |-> t.addr])
                                    ELSE @])
    /\ UNCHANGED <<config, host, blockedIp, wrongPasswordCounter, serverMessageAcknowledges,
                   seqNumber, rx, handled, quota, ticks>>

\* the key of line 299: addr.String()+"_"+strconv.Itoa(int(seq))
ackKey(addr, seq) == addr \o <<"_">> \o Itoa(seq)

\* line 299: r.serverMessageAcknowledges.Set(key, true, 15*time.Second)
HandlePacketAck(t) ==
    /\ t.pc = "ack"
    /\ serverMessageAcknowledges' =
          cacheSet(serverMessageAcknowledges,
                   ackKey(t.addr, ParseSequenceNumber(bodyOf(t.data)).val),
                   TRUE, ackInterval)
    /\ tasks' = Becomes(t, [t EXCEPT !.pc = "done"])
    /\ UNCHANGED <<config, host, clients, blockedIp, wrongPasswordCounter, seqNumber,
                   rx, idle, handled, quota, ticks>>

\* the command handler, which is the host program's: it answers the command
\* with one SendResponse of a command response to the call's sequence number
\* (the README's echoes the command in it) and returns
CallbackRespond(t) ==
    /\ t.pc = "callback"
    /\ LET call == t.calls[Len(t.calls)]
       IN  tasks' = Becomes(t, [t EXCEPT !.pc = "done",
                        !.replies = Append(@,
                            SendResponse(call.from,
                                MakeCommandResponsePacket(call.seq, call.command)))])
    /\ UNCHANGED <<config, host, tables, seqNumber, rx, idle, handled, quota, ticks>>

\* or it returns without answering
CallbackReturn(t) ==
    /\ t.pc = "callback"
    /\ tasks' = Becomes(t, [t EXCEPT !.pc = "done"])
    /\ UNCHANGED <<config, host, tables, seqNumber, rx, idle, handled, quota, ticks>>

\* a well-formed login datagram that carries a password other than the
\* configured one
WrongLogin(data) ==
    /\ Len(data) > 8
    /\ data = LoginOf(Drop(data, 8))
    /\ Drop(data, 8) # password

\* the goroutine ends
HandlePacketReturn(t) ==
    /\ t.pc = "done"
    /\ tasks' = Ends(t)
    /\ handled' =
          IF WrongLogin(t.data)
            THEN LET ip == addressWithoutPort(t.addr)
                 IN  [k \in DOMAIN handled \cup {ip} |->
                        IF k = ip
                          THEN (IF ip \in DOMAIN handled THEN handled[ip] ELSE 0) + 1
                          ELSE handled[k]]
            ELSE handled
    /\ UNCHANGED <<config, host, tables, seqNumber, rx, idle, quota, ticks>>

(***************************************************************************)
(* handleAuthentication                                                    *)
(***************************************************************************)
passwordOf(data) == ParseCommand(bodyOf(data)).val

\* line 314, and for a wrong password lines 315-321: the LoginFailed answer
\* and r.wrongPasswordCounter.Get(clientIP). A right password goes on to
\* line 337
AuthPassword(t) ==
    /\ t.pc = "auth"
    /\ LET clientIP == addressWithoutPort(t.addr)
       IN  IF passwordOf(t.data) # password
             THEN tasks' = Becomes(t,
                     [t EXCEPT !.out = Append(@, SendResponse(t.addr,
                                           MakeLoginResponsePacket(LoginFailed))),
                               !.pc = IF cacheFound(wrongPasswordCounter, clientIP)
                                        THEN "increment" ELSE "create"])
             ELSE tasks' = Becomes(t, [t EXCEPT !.pc = "session"])
    /\ UNCHANGED <<config, host, tables, seqNumber, rx, idle, handled, quota, ticks>>

\* line 323: r.wrongPasswordCounter.Set(clientIP, 0, blockIpInterval)
AuthCreateCounter(t) ==
    /\ t.pc = "create"
    /\ wrongPasswordCounter' =
          cacheSet(wrongPasswordCounter, addressWithoutPort(t.addr), 0,
                   blockIpInterval)
    /\ tasks' = Becomes(t, [t EXCEPT !.pc = "increment"])
    /\ UNCHANGED <<config, host, clients, blockedIp, serverMessageAcknowledges, seqNumber,
                   rx, idle, handled, quota, ticks>>

\* line 326: times, _ := r.wrongPasswordCounter.IncrementInt(clientIP, 1)
AuthIncrement(t) ==
    /\ t.pc = "increment"
    /\ LET inc == cacheIncrementInt(wrongPasswordCounter,
                                    addressWithoutPort(t.addr), 1)
       IN  /\ wrongPasswordCounter' = inc.cache
           /\ tasks' = Becomes(t, [t EXCEPT !.times = inc.val,
                           !.log = "wrong password provided",
                           !.pc = IF inc.val >= loginTries THEN "block"
                                                            ELSE "session"])
    /\ UNCHANGED <<config, host, clients, blockedIp, serverMessageAcknowledges, seqNumber,
                   rx, idle, handled, quota, ticks>>

\* line 331: r.blockedIp.Set(clientIP, true, blockIpInterval)
AuthBlock(t) ==
    /\ t.pc = "block"
    /\ blockedIp' = cacheSet(blockedIp, addressWithoutPort(t.addr), TRUE,
                             blockIpInterval)
    /\ tasks' = Becomes(t, [t EXCEPT !.pc = "session", !.log = "ip blocked"])
    /\ UNCHANGED <<config, host, clients, wrongPasswordCounter, serverMessageAcknowledges,
                   seqNumber, rx, idle, handled, quota, ticks>>

\* the session kept for the time of a block
newSession_BlockInterval(addr) == cacheSet(clients, addr, addr, blockIpInterval)

\* line 337: r.clients.Set(addr.String(), addr, keepAliveCheck)
newSession(addr) == cacheSet(clients, addr, addr, keepAliveCheck)

\* lines 336-342, which are outside the if of line 314:
\* r.clients.Set(addr.String(), addr, keepAliveCheck) and the LoginSuccessful
\* answer
AuthSession(t) ==
    /\ t.pc = "session"
    /\ clients' = newSession(t.addr)
    /\ idle' = Seen(t.addr)
    /\ tasks' = Becomes(t, [t EXCEPT !.pc = "done",
                    !.log = "authenticated with password",
                    !.out = Append(@, SendResponse(t.addr,
                                   MakeLoginResponsePacket(LoginSuccessful)))])
    /\ UNCHANGED <<config, host, blockedIp, wrongPasswordCounter, serverMessageAcknowledges,
                   seqNumber, rx, handled, quota, ticks>>

(***************************************************************************)
(* Broadcast and NextSequenceNumber, which the host program calls           *)
(***************************************************************************)
\* the server messages the host program broadcasts
Messages == {MakeServerMessagePacket(SeqM, Hello)}

\* lines 138-141: the sequence number read out of the message, the errors of
\* the three readers being dropped
broadcastSeq(data) ==
    ParseSequenceNumber(ParsePacketType(ParseHeader(data).rest).rest).val

\* the elements of a set one after the other (for _, addr := range)
RECURSIVE Listed(_)
Listed(S) ==
    IF S = {} THEN <<>>
    ELSE LET x == CHOOSE y \in S : TRUE IN <<x>> \o Listed(S \ {x})

\* the goroutine looking through the acknowledges before it writes
Cast_CheckFirst(addr, seq, data) ==
    [pc |-> "check", addr |-> addr, seq |-> seq, data |-> data, i |-> 0,
     receivedAcknowledge |-> FALSE, out |-> <<>>, left |-> 0, since |-> 0,
     stale |-> FALSE]

\* lines 144-146: go func(addr, seq), receivedAcknowledge := false, i := 0;
\* out is what the goroutine wrote to the socket, left the seconds its
\* time.Sleep has to go, since the seconds since it last wrote; stale
\* remembers whether an acknowledge of addr and seq was in the ack table
\* when Broadcast was called
Cast(addr, seq, data) ==
    [pc |-> "send", addr |-> addr, seq |-> seq, data |-> data, i |-> 0,
     receivedAcknowledge |-> FALSE, out |-> <<>>, left |-> 0, since |-> 0,
     stale |-> FALSE]

\* lines 135-173 up to the go statements: Broadcast takes the sequence number
\* out of data and starts one goroutine for each address Clients returns
Broadcast ==
    /\ hostCalls > 0
    /\ hostCalls' = hostCalls - 1
    /\ \E data \in Messages :
          LET to == Listed(Clients)
              seq == broadcastSeq(data)
          IN  casts' = casts \o [k \in 1..Len(to) |->
                 [Cast(to[k], seq, data) EXCEPT !.stale =
                     ackKey(to[k], seq) \in cacheItems(serverMessageAcknowledges)]]
    /\ UNCHANGED <<config, tables, seqNumber, rx, tasks, idle, handled, quota,
                   ticks, returned, codec>>

\* lines 149-150: r.SendResponse(addr, data), then time.Sleep begins
CastSend(k) ==
    /\ casts[k].pc = "send"
    /\ casts' = [casts EXCEPT ![k] =
                   [@ EXCEPT !.out = Append(@, SendResponse(casts[k].addr, casts[k].data)),
                             !.pc = "sleep", !.left = retrySleep, !.since = 0]]
    /\ UNCHANGED <<config, tables, seqNumber, rx, tasks, idle, handled, quota,
                   ticks, returned, codec, hostCalls>>

\* line 150: time.Sleep returns, not before its time
CastWake(k) ==
    /\ casts[k].pc = "sleep"
    /\ casts[k].left = 0
    /\ casts' = [casts EXCEPT ![k].pc = "check"]
    /\ UNCHANGED <<config, tables, seqNumber, rx, tasks, idle, handled, quota,
                   ticks, returned, codec, hostCalls>>

\* the test of line 156 with the two parts taken for each other
acknowledges_Swapped(addrAndSeq, addr, seq) ==
    LET parts == Split(addrAndSeq, "_")
    IN  parts[2] = addr /\ Itoa(seq) = parts[1]

\* the test of line 156 without its first part
acknowledges_AnyPeer(addrAndSeq, addr, seq) ==
    LET parts == Split(addrAndSeq, "_")
    IN  Itoa(seq) = parts[2]

\* the test of line 156 without its second part
acknowledges_AnySequence(addrAndSeq, addr, seq) ==
    LET parts == Split(addrAndSeq, "_")
    IN  parts[1] = addr

\* lines 154-156: parts := strings.Split(addrAndSeq, "_");
\* parts[0] == addr.String() && strconv.Itoa(int(seq)) == parts[1]
acknowledges(addrAndSeq, addr, seq) ==
    LET parts == Split(addrAndSeq, "_")
    IN  parts[1] = addr /\ Itoa(seq) = parts[2]

\* the loop going round once more than rconServerMessageTries
attemptsLeft_Inclusive(i) == i <= rconServerMessageTries

\* line 148: i < rconServerMessageTries
attemptsLeft(i) == i < rconServerMessageTries

\* lines 152-168: the acknowledges are looked through, every one of this
\* peer and sequence number is deleted and ends the loop; without one the
\* loop goes on to its next attempt or, after the last, to line 169
CastCheck(k) ==
    /\ casts[k].pc = "check"
    /\ LET c        == casts[k]
           matching == {key \in cacheItems(serverMessageAcknowledges) :
                           acknowledges(key, c.addr, c.seq)}
           received == c.receivedAcknowledge \/ matching # {}
       IN  /\ serverMessageAcknowledges' =
                 [key \in DOMAIN serverMessageAcknowledges \ matching |->
                     serverMessageAcknowledges[key]]
           /\ casts' = [casts EXCEPT ![k] =
                 [@ EXCEPT !.receivedAcknowledge = received,
                           !.i = IF received THEN @ ELSE @ + 1,
                           !.pc = IF received THEN "done"
                                  ELSE IF attemptsLeft(c.i + 1) THEN "send"
                                  ELSE "evict"]]
    /\ UNCHANGED <<config, clients, blockedIp, wrongPasswordCounter, seqNumber, rx,
                   tasks, idle, handled, quota, ticks, returned, codec, hostCalls>>

\* line 169: r.clients.Delete(addr.String())
CastEvict(k) ==
    /\ casts[k].pc = "evict"
    /\ clients' = cacheDelete(clients, casts[k].addr)
    /\ casts' = [casts EXCEPT ![k].pc = "done"]
    /\ UNCHANGED <<config, blockedIp, wrongPasswordCounter, serverMessageAcknowledges,
                   seqNumber, rx, tasks, idle, handled, quota, ticks, returned,
                   codec, hostCalls>>

\* the register set back past its first value
nextSequence_ResetToOne(register) ==
    LET number    == register
        newNumber == register + 1
    IN  [value |-> number % 256,
         register |-> IF newNumber > 255 THEN 1 ELSE newNumber]

\* lines 100-110: number := r.seqNumber.Load(), newNumber := r.seqNumber.Inc(),
\* r.seqNumber.Store(0) when newNumber > 255, return uint8(number). The
\* register is a uint32 that the reset keeps at 256 or less, so that Inc
\* never wraps
nextSequence(register) ==
    LET number    == register
        newNumber == register + 1
    IN  [value |-> number % 256,
         register |-> IF newNumber > 255 THEN 0 ELSE newNumber]

\* NextSequenceNumber called by the host program, one call after the other
NextSequenceNumber ==
    /\ hostCalls > 0
    /\ hostCalls' = hostCalls - 1
    /\ seqNumber' = nextSequence(seqNumber).register
    /\ returned' = Append(returned, nextSequence(seqNumber).value)
    /\ UNCHANGED <<config, tables, rx, tasks, idle, handled, quota, ticks, casts,
                   codec>>

(***************************************************************************)
(* Time                                                                    *)
(***************************************************************************)
\* a goroutine of Broadcast d seconds later: time.Sleep has d seconds less to
\* go, and the last datagram it wrote is d seconds older (counted up to the
\* length of the sleep)
Slept(c, d) ==
    [c EXCEPT !.left = IF @ > d THEN @ - d ELSE 0,
              !.since = IF @ + d > retrySleep THEN retrySleep ELSE @ + d]

\* d seconds pass: every entry of every table is d seconds older
Advance(d) ==
    /\ ticks > 0
    /\ ticks' = ticks - 1
    /\ clients' = Age(clients, d)
    /\ blockedIp' = Age(blockedIp, d)
    /\ wrongPasswordCounter' = Age(wrongPasswordCounter, d)
    /\ serverMessageAcknowledges' = Age(serverMessageAcknowledges, d)
    /\ idle' = [k \in DOMAIN idle |->
                  IF idle[k] + d > keepAliveCheck THEN keepAliveCheck + 1
                                                  ELSE idle[k] + d]
    /\ casts' = [i \in DOMAIN casts |-> Slept(casts[i], d)]
    /\ UNCHANGED <<config, returned, codec, hostCalls, seqNumber, rx, tasks,
                   handled, quota>>

Next ==
    \/ ListenAndServe
    \/ \E t \in Running : HandlePacketGet(t)
    \/ \E t \in Running : HandlePacketRefresh(t)
    \/ \E t \in Running : HandlePacketAck(t)
    \/ \E t \in Running : CallbackRespond(t)
    \/ \E t \in Running : CallbackReturn(t)
    \/ \E t \in Running : HandlePacketReturn(t)
    \/ \E t \in Running : AuthPassword(t)
    \/ \E t \in Running : AuthCreateCounter(t)
    \/ \E t \in Running : AuthIncrement(t)
    \/ \E t \in Running : AuthBlock(t)
    \/ \E t \in Running : AuthSession(t)
    \/ \E d \in delays : Advance(d)

Spec == Init /\ [][Next]_vars

(***************************************************************************)
(* The host program broadcasts                                             *)
(***************************************************************************)
\* d seconds pass while a goroutine of Broadcast is in its time.Sleep
Asleep(d) ==
    /\ \E k \in DOMAIN casts : casts[k].pc = "sleep" /\ casts[k].left > 0
    /\ Advance(d)

BroadcastInit ==
    /\ Configured(Secret, {<<HostB>>}, FALSE)
    /\ scenario = Acknowledging.name
    /\ quota = Acknowledging.quota
    /\ ticks = Acknowledging.ticks
    /\ codec = NoCodec
    /\ hostCalls = MaxBroadcasts

BroadcastNext ==
    \/ ListenAndServe
    \/ \E t \in Running : HandlePacketGet(t)
    \/ \E t \in Running : HandlePacketRefresh(t)
    \/ \E t \in Running : HandlePacketAck(t)
    \/ \E t \in Running : HandlePacketReturn(t)
    \/ \E t \in Running : AuthPassword(t)
    \/ \E t \in Running : AuthSession(t)
    \/ Broadcast
    \/ \E k \in DOMAIN casts : CastSend(k)
    \/ \E k \in DOMAIN casts : CastWake(k)
    \/ \E k \in DOMAIN casts : CastCheck(k)
    \/ \E k \in DOMAIN casts : CastEvict(k)
    \/ \E d \in delays : Asleep(d)

BroadcastSpec == BroadcastInit /\ [][BroadcastNext]_vars

(***************************************************************************)
(* A broadcast after time has passed since the peer's packets              *)
(***************************************************************************)
\* d seconds pass before the host program calls Broadcast
Waiting(d) ==
    /\ hostCalls > 0
    /\ Advance(d)

StaleInit ==
    /\ Configured(Secret, {<<HostB>>}, FALSE)
    /\ scenario = Stale.name
    /\ quota = Stale.quota
    /\ ticks = Stale.ticks
    /\ codec = NoCodec
    /\ hostCalls = MaxBroadcasts

StaleNext ==
    \/ ListenAndServe
    \/ \E t \in Running : HandlePacketGet(t)
    \/ \E t \in Running : HandlePacketRefresh(t)
    \/ \E t \in Running : HandlePacketAck(t)
    \/ \E t \in Running : HandlePacketReturn(t)
    \/ \E t \in Running : AuthPassword(t)
    \/ \E t \in Running : AuthSession(t)
    \/ \E d \in delays : Waiting(d)
    \/ Broadcast
    \/ \E k \in DOMAIN casts : CastSend(k)
    \/ \E k \in DOMAIN casts : CastWake(k)
    \/ \E k \in DOMAIN casts : CastCheck(k)
    \/ \E k \in DOMAIN casts : CastEvict(k)
    \/ Asleep(retrySleep)

StaleSpec == StaleInit /\ [][StaleNext]_vars

(***************************************************************************)
(* The engine with a password that may be the empty string                 *)
(***************************************************************************)
BareInit ==
    /\ \E pw \in {<<>>, Secret} : Configured(pw, {<<HostB>>}, FALSE)
    /\ scenario = Bare.name
    /\ quota = Bare.quota
    /\ ticks = Bare.ticks
    /\ codec = NoCodec
    /\ hostCalls = 0

BareNext ==
    \/ ListenAndServe
    \/ \E t \in Running : HandlePacketGet(t)
    \/ \E t \in Running : HandlePacketRefresh(t)
    \/ \E t \in Running : HandlePacketReturn(t)
    \/ \E t \in Running : AuthPassword(t)
    \/ \E t \in Running : AuthCreateCounter(t)
    \/ \E t \in Running : AuthIncrement(t)
    \/ \E t \in Running : AuthSession(t)

BareSpec == BareInit /\ [][BareNext]_vars

(***************************************************************************)
(* The host program allocates sequence numbers                             *)
(***************************************************************************)
SequenceInit ==
    /\ Configured(Secret, {}, FALSE)
    /\ scenario = Quiet.name
    /\ quota = Quiet.quota
    /\ ticks = Quiet.ticks
    /\ codec = NoCodec
    /\ hostCalls = MaxCalls

SequenceNext == NextSequenceNumber

SequenceSpec == SequenceInit /\ [][SequenceNext]_vars

(***************************************************************************)
(* The engine with a command handler that may never return. The Go         *)
(* scheduler runs every goroutine that can run: the accept loop and the    *)
(* library's own steps of the handlePacket goroutines are taken sooner or  *)
(* later, while the return of the host program's handler is not promised.  *)
(***************************************************************************)
CallbackInit ==
    /\ Configured(Secret, {<<HostB>>}, TRUE)
    /\ scenario = Blocking.name
    /\ quota = Blocking.quota
    /\ ticks = Blocking.ticks
    /\ codec = NoCodec
    /\ hostCalls = 0

\* a step of the library in a handlePacket goroutine
LibraryStep ==
    \E t \in Running :
        \/ HandlePacketGet(t)
        \/ HandlePacketRefresh(t)
        \/ HandlePacketReturn(t)
        \/ AuthPassword(t)
        \/ AuthSession(t)

\* a step of the host program's command handler
HandlerStep == \E t \in Running : CallbackRespond(t) \/ CallbackReturn(t)

CallbackNext ==
    \/ ListenAndServe
    \/ LibraryStep
    \/ HandlerStep

CallbackSpec ==
    /\ CallbackInit
    /\ [][CallbackNext]_vars
    /\ WF_vars(ListenAndServe)
    /\ WF_vars(LibraryStep)

(***************************************************************************)
(* The packet codec on its own: a packet is built, or bytes are given, and  *)
(* the readers are called one after the other on a bytes.Reader over it    *)
(***************************************************************************)
\* the sequence numbers and payloads given to the builders
Seqs == {0, SeqM, SeqK, 255}

Payloads == {<<>>, Cmd, Hello, <<0>>, <<255, 255>>, packetHeaderMagic}

\* the four bytes of a checksum field: crc32 of "test", as TestParseHeader
\* has it, and 100
SumBytes == {PutUint32(NewChecksum(<<116, 101, 115, 116>>)), <<100, 0, 0, 0>>}

\* byte slices given to ParseHeader: nothing, half a magic, a magic alone, a
\* wrong magic, a short checksum, no trailer, a trailer other than 0xff, a
\* header, a header and a payload
Raws ==
    {<<>>, <<66>>, packetHeaderMagic, packetHeaderMagic \o <<255>>}
      \cup {<<78, 79>> \o b \o <<255>> : b \in SumBytes}
      \cup {packetHeaderMagic \o SubSeq(b, 1, 3) : b \in SumBytes}
      \cup {packetHeaderMagic \o b : b \in SumBytes}
      \cup {packetHeaderMagic \o b \o <<e>> : b \in SumBytes, e \in {0, 254, 255}}
      \cup {packetHeaderMagic \o b \o <<255, 1, SeqK>> : b \in SumBytes}

Asks ==
    [kind : {"login"}, type : {LoginSuccessful, LoginFailed}]
      \cup [kind : {"command", "message"}, seq : Seqs, data : Payloads]
      \cup [kind : {"raw"}, data : Raws]

CodecInit ==
    /\ Configured(Secret, {}, FALSE)
    /\ scenario = Quiet.name
    /\ quota = Quiet.quota
    /\ ticks = Quiet.ticks
    /\ hostCalls = 0
    /\ \E ask \in Asks : codec = [NoCodec EXCEPT !.stage = "ask", !.ask = ask]

\* the builder asked for is called, or the bytes given are taken
CodecMake ==
    /\ codec.stage = "ask"
    /\ LET ask == codec.ask
       IN  codec' = [codec EXCEPT !.stage = "made", !.bytes =
              CASE ask.kind = "login"   -> MakeLoginResponsePacket(ask.type)
                [] ask.kind = "command" -> MakeCommandResponsePacket(ask.seq, ask.data)
                [] ask.kind = "message" -> MakeServerMessagePacket(ask.seq, ask.data)
                [] ask.kind = "raw"     -> ask.data]
    /\ UNCHANGED <<config, tables, seqNumber, rx, tasks, idle, handled, quota,
                   ticks, casts, returned, hostCalls>>

CodecParseHeader ==
    /\ codec.stage = "made"
    /\ codec' = [codec EXCEPT !.stage = "header", !.header = ParseHeader(codec.bytes)]
    /\ UNCHANGED <<config, tables, seqNumber, rx, tasks, idle, handled, quota,
                   ticks, casts, returned, hostCalls>>

CodecParsePacketType ==
    /\ codec.stage = "header"
    /\ codec.header.err = Nil
    /\ codec' = [codec EXCEPT !.stage = "type",
                                !.type = ParsePacketType(codec.header.rest)]
    /\ UNCHANGED <<config, tables, seqNumber, rx, tasks, idle, handled, quota,
                   ticks, casts, returned, hostCalls>>

CodecParseSequenceNumber ==
    /\ codec.stage = "type"
    /\ codec.type.err = Nil
    /\ codec' = [codec EXCEPT !.stage = "seq",
                                !.seq = ParseSequenceNumber(codec.type.rest)]
    /\ UNCHANGED <<config, tables, seqNumber, rx, tasks, idle, handled, quota,
                   ticks, casts, returned, hostCalls>>

CodecParseCommand ==
    /\ codec.stage = "seq"
    /\ codec.seq.err = Nil
    /\ codec' = [codec EXCEPT !.stage = "command",
                                !.command = ParseCommand(codec.seq.rest)]
    /\ UNCHANGED <<config, tables, seqNumber, rx, tasks, idle, handled, quota,
                   ticks, casts, returned, hostCalls>>

CodecNext ==
    \/ CodecMake
    \/ CodecParseHeader
    \/ CodecParsePacketType
    \/ CodecParseSequenceNumber
    \/ CodecParseCommand

CodecSpec == CodecInit /\ [][CodecNext]_vars

(***************************************************************************)
(* The claims                                                              *)
(***************************************************************************)
\* the source IP of an address of this model: its first character
HostOf(addr) == <<addr[1]>>

\* goroutine t takes a step and goes on as u
Took(t, u) == tasks' # tasks /\ tasks' = Becomes(t, u)

\* the goroutines started in a step
Spawned ==
    {t \in BagToSet(tasks') : t.pc = "start" /\ CopiesIn(t, tasks') > CopiesIn(t, tasks)}

\* a well-formed login datagram that carries the configured password
RightLogin(data) ==
    /\ Len(data) > 8
    /\ data = LoginOf(Drop(data, 8))
    /\ Drop(data, 8) = password

\* a well-formed header, then a type other than login
NonLogin(data) == Len(data) >= 8 /\ data[8] # LoginPacketType

\* a well-formed command datagram with a sequence number and nothing after it
KeepAlive(data) == Len(data) = 9 /\ data = KeepAliveOf(data[9])

\* a well-formed command datagram with a sequence number and a command
Command(data) == Len(data) > 9 /\ data = CommandOf(data[9], Drop(data, 9))

LoginFailedTo(addr) == SendResponse(addr, MakeLoginResponsePacket(LoginFailed))

LoginSuccessfulTo(addr) == SendResponse(addr, MakeLoginResponsePacket(LoginSuccessful))

\* C1: once the login datagram of a peer without a session has been handled and
\* its password is not the configured one, the only datagram written for it is
\* LoginFailed and the peer has no session
C1_WrongPasswordNoSession ==
    \A t \in Running :
        (t.pc = "done" /\ WrongLogin(t.data) /\ ~t.clientConnected)
            => /\ t.out = <<LoginFailedTo(t.addr)>>
               /\ ~cacheFound(clients, t.addr)

\* C2: once five wrong-password login datagrams of a source IP have been
\* handled, the IP is in the block table
C2_FiveWrongPasswordsBlock ==
    \A ip \in DOMAIN handled :
        handled[ip] >= loginTries => ip \in cacheItems(blockedIp)

\* C3: when the first two wrong-password logins of a source IP were handled
\* by two goroutines alive at the same time, both of which found no session
\* and went through handleAuthentication, the counter of the IP is 2
C3_CounterAtomic ==
    \A t \in Running, u \in Running :
        ( /\ t # u \/ CopiesIn(t, tasks) >= 2
          /\ t.pc = "done" /\ u.pc = "done"
          /\ WrongLogin(t.data) /\ WrongLogin(u.data)
          /\ ~t.clientConnected /\ ~u.clientConnected
          /\ HostOf(t.addr) = HostOf(u.addr)
          /\ BagCardinality(tasks) = 2
          /\ HostOf(t.addr) \notin DOMAIN handled )
            => /\ cacheFound(wrongPasswordCounter, HostOf(t.addr))
               /\ wrongPasswordCounter[HostOf(t.addr)].obj = 2

\* the datagram the accept loop read in this step was ignored
Ignored == quota' < quota /\ rx' # NoDatagram

\* C4: while a source IP is live in the block table, the accept loop starts no
\* goroutine for a datagram of that IP, of any kind, and ignoring the datagram
\* leaves the goroutines (the only writers to the socket) and the tables as
\* they were
C4_BlockedSourceIgnored ==
    [][ /\ \A t \in Spawned : HostOf(t.addr) \notin cacheItems(blockedIp)
        /\ (Ignored /\ HostOf(rx'.addr) \in cacheItems(blockedIp))
              => UNCHANGED <<tasks, tables, seqNumber>> ]_vars

\* five wrong passwords have blocked the IP, and a keep-alive of that IP, the
\* sixth datagram, has been ignored
C4_Witness ==
    /\ rx # NoDatagram
    /\ rx.data = KeepAliveOf(SeqK)
    /\ HostOf(rx.addr) \in cacheItems(blockedIp)
    /\ cacheFound(wrongPasswordCounter, HostOf(rx.addr))
    /\ wrongPasswordCounter[HostOf(rx.addr)].obj >= loginTries

\* C5: the accept loop starts no goroutine for a datagram whose source IP is
\* in the ban list, whatever the datagram, and ignoring it leaves the
\* goroutines (the only writers to the socket) and the session,
\* wrong-password, block and ack tables as they were
C5_BannedSourceIgnored ==
    [][ /\ \A t \in Spawned : HostOf(t.addr) \notin ipBanList
        /\ (Ignored /\ HostOf(rx'.addr) \in ipBanList)
              => UNCHANGED <<tasks, tables, seqNumber>> ]_vars

\* a login with the configured password from the banned host has been ignored
C5_Witness ==
    /\ rx # NoDatagram
    /\ HostOf(rx.addr) \in ipBanList
    /\ RightLogin(rx.data)
    /\ ~cacheFound(clients, rx.addr)

\* a goroutine that found no session for its peer and holds a datagram of a
\* type other than login
Unauthenticated(t) == t.pc # "start" /\ ~t.clientConnected /\ NonLogin(t.data)

C6_Dropped ==
    \A t \in Running :
        Unauthenticated(t)
            => t.pc = "done" /\ t.out = <<>> /\ t.calls = <<>> /\ t.replies = <<>>

C6_Untouched ==
    \A t \in Running :
        /\ \A u \in BagToSet(tasks') :
              (Took(t, u) /\ Unauthenticated(u)) => UNCHANGED <<tables, seqNumber>>
        /\ (Unauthenticated(t) /\ tasks' = Ends(t)) => UNCHANGED <<tables, seqNumber>>

\* C6: a goroutine handling a packet of a type other than login from a peer
\* without a session ends having written nothing and called no command
\* handler, and none of its steps changes the session, wrong-password, block
\* and ack tables or the sequence counter
C6_NonLoginWithoutSession == []C6_Dropped /\ [][C6_Untouched]_vars

\* a keep-alive of a peer without a session has been dropped while another
\* peer has a session
C6_Witness ==
    \E t \in Running :
        /\ Unauthenticated(t)
        /\ KeepAlive(t.data)
        /\ t.log = "without authentication"
        /\ cacheItems(clients) # {}

\* a goroutine that found no session for its peer and holds a login datagram
\* with the configured password
Authenticating(t) == t.pc # "start" /\ ~t.clientConnected /\ RightLogin(t.data)

C7_Answered ==
    \A t \in Running :
        Authenticating(t)
            => /\ t.pc \in {"auth", "session", "done"}
               /\ t.calls = <<>> /\ t.replies = <<>>
               /\ t.out = IF t.pc = "done" THEN <<LoginSuccessfulTo(t.addr)>> ELSE <<>>

C7_Inserted ==
    \A t \in Running : \A u \in BagToSet(tasks') :
        (Took(t, u) /\ Authenticating(u))
            => /\ UNCHANGED <<wrongPasswordCounter, blockedIp>>
               /\ t.pc = "session"
                    => /\ cacheFound(clients', t.addr)
                       /\ clients'[t.addr] = [obj |-> t.addr, ttl |-> keepAliveCheck]

\* C7: a goroutine handling a login datagram with the configured password from
\* a peer without a session puts the peer in the session table with 50
\* seconds to live, writes LoginSuccessful to the peer and nothing else, and
\* leaves the wrong-password and block tables as they were
C7_CorrectLogin == []C7_Answered /\ [][C7_Inserted]_vars

C7_Witness ==
    \E t \in Running :
        /\ Authenticating(t)
        /\ t.pc = "done"
        /\ t.out = <<LoginSuccessfulTo(t.addr)>>
        /\ cacheFound(clients, t.addr)
        /\ clients[t.addr].ttl = keepAliveCheck
        /\ wrongPasswordCounter = NoItems

\* C8: a peer that had a session is in the result of Clients exactly when at
\* most 50 seconds have passed since the engine last accepted a packet of it
\* (its login or a later packet that passed the checks)
C8_SilentPeerExpires ==
    \A P \in DOMAIN idle : (P \in Clients) <=> (idle[P] <= keepAliveCheck)

\* one peer has been silent for more than 50 seconds and is gone, another has
\* been silent for less and is there
C8_Witness ==
    \E P \in DOMAIN idle, Q \in DOMAIN idle :
        /\ idle[P] > keepAliveCheck /\ P \notin Clients
        /\ idle[Q] > 0 /\ idle[Q] <= keepAliveCheck /\ Q \in Clients

\* a goroutine that found a session for its peer and holds a keep-alive
KeepingAlive(t) == t.pc # "start" /\ t.clientConnected /\ KeepAlive(t.data)

C9_Answered ==
    \A t \in Running :
        KeepingAlive(t)
            => /\ t.pc \in {"refresh", "done"}
               /\ t.calls = <<>> /\ t.replies = <<>>
               /\ t.out = IF t.pc = "done"
                            THEN <<SendResponse(t.addr,
                                     MakeCommandResponsePacket(t.data[9], <<>>))>>
                            ELSE <<>>

C9_Reset ==
    \A t \in Running : \A u \in BagToSet(tasks') :
        (Took(t, u) /\ KeepingAlive(t) /\ t.pc = "refresh")
            => /\ cacheFound(clients', t.addr)
               /\ clients'[t.addr] = [obj |-> t.addr, ttl |-> keepAliveCheck]

\* C9: a goroutine handling a keep-alive with sequence number s from a peer
\* with a session writes one datagram to the peer, the command response to s
\* with an empty body, gives the session 50 seconds to live again and calls
\* no command handler
C9_KeepAlive == []C9_Answered /\ [][C9_Reset]_vars

\* a keep-alive was answered, with the bytes of the keep-alive itself, a
\* command handler being registered
C9_Witness ==
    \E t \in Running :
        /\ KeepingAlive(t)
        /\ t.pc = "done"
        /\ Len(t.out) = 1
        /\ commandHandler
        /\ t.out[1] = [to |-> t.addr, data |-> KeepAliveOf(SeqK)]
        /\ cacheFound(clients, t.addr)
        /\ clients[t.addr].ttl = keepAliveCheck

\* a goroutine that found a session for its peer and holds a command
Commanding(t) == t.pc # "start" /\ t.clientConnected /\ Command(t.data)

\* C10: when a command handler is registered, a goroutine handling a command
\* with sequence number s and body c from a peer P with a session calls the
\* handler once, with (s, c, P), and writes nothing itself: what is written
\* to P is written by the handler
C10_CommandCallback ==
    \A t \in Running :
        (Commanding(t) /\ commandHandler)
            => /\ t.pc \in {"refresh", "callback", "done"}
               /\ t.out = <<>>
               /\ t.calls = IF t.pc = "refresh"
                              THEN <<>>
                              ELSE <<[seq |-> t.data[9],
                                      command |-> Drop(t.data, 9),
                                      from |-> t.addr]>>
               /\ t.pc # "done" => t.replies = <<>>
               /\ \A i \in DOMAIN t.replies : t.replies[i].to = t.addr

\* the handler was called for a command and answered it
C10_Witness ==
    \E t \in Running :
        /\ Commanding(t) /\ commandHandler
        /\ t.pc = "done"
        /\ Len(t.calls) = 1
        /\ t.calls[1].command = Cmd
        /\ Len(t.replies) = 1

\* goroutine k of Broadcast looks through the acknowledges in this step
Checks(k) == casts[k].pc = "check" /\ casts'[k].pc # "check"

\* the key under which the acknowledge of sequence number seq by peer addr is
\* kept
AckEntry(addr, seq) == addr \o <<"_">> \o Itoa(seq)

C11_Once ==
    \A k \in DOMAIN casts :
        (casts[k].receivedAcknowledge /\ casts[k].i = 0)
            => /\ casts[k].pc = "done"
               /\ casts[k].out = <<[to |-> casts[k].addr, data |-> casts[k].data]>>

C11_Stops ==
    \A k \in DOMAIN casts :
        ( /\ Checks(k)
          /\ casts[k].i = 0
          /\ AckEntry(casts[k].addr, SeqM) \in cacheItems(serverMessageAcknowledges) )
            => /\ casts'[k].pc = "done"
               /\ casts'[k].receivedAcknowledge
               /\ Len(casts'[k].out) = 1
               /\ AckEntry(casts[k].addr, SeqM) \notin cacheItems(serverMessageAcknowledges')
               /\ clients' = clients
               /\ cacheFound(clients', casts[k].addr)

\* C11: when the acknowledge of a peer for the sequence number of a broadcast
\* is in the ack table at the end of the first sleep of the peer's goroutine,
\* the goroutine deletes the acknowledge and ends having written the
\* broadcast to the peer once, and the peer's session stays
C11_AcknowledgedOnce == []C11_Once /\ [][C11_Stops]_vars

\* of two peers in a broadcast the one that acknowledged got the message
\* once and has its session, its acknowledge being gone
C11_Witness ==
    \E k \in DOMAIN casts :
        /\ casts[k].pc = "done"
        /\ casts[k].receivedAcknowledge
        /\ Len(casts[k].out) = 1
        /\ casts[k].addr \in Clients
        /\ serverMessageAcknowledges = NoItems
        /\ Len(casts) = 2

C12_FiveTimes ==
    \A k \in DOMAIN casts :
        LET c == casts[k]
        IN  /\ Len(c.out) <= rconServerMessageTries
            /\ \A n \in DOMAIN c.out : c.out[n] = [to |-> c.addr, data |-> c.data]
            /\ (~c.receivedAcknowledge /\ c.pc \in {"evict", "done"})
                  => Len(c.out) = rconServerMessageTries

C12_Evicts ==
    \A k \in DOMAIN casts :
        /\ (casts[k].pc = "send" /\ casts'[k].pc = "sleep" /\ casts[k].out # <<>>)
              => casts[k].since >= rconServerMessageRetryPeriod \div rconServerMessageTries
        /\ (~casts'[k].receivedAcknowledge /\ casts[k].pc # "done" /\ casts'[k].pc = "done")
              => /\ casts[k].pc = "evict"
                 /\ ~cacheFound(clients', casts[k].addr)

\* C12: the goroutine of a broadcast for a peer whose acknowledge it never
\* finds writes the message to the peer 5 times and no more, each time not
\* less than 2 seconds after the time before, and then deletes the peer's
\* session, however fresh
C12_UnacknowledgedFiveTimes == []C12_FiveTimes /\ [][C12_Evicts]_vars

\* after the fifth attempt the goroutine is about to delete a session that
\* was set during the retries
C12_Witness ==
    \E k \in DOMAIN casts :
        /\ casts[k].pc = "evict"
        /\ ~casts[k].receivedAcknowledge
        /\ Len(casts[k].out) = rconServerMessageTries
        /\ cacheFound(clients, casts[k].addr)
        /\ clients[casts[k].addr].ttl > keepAliveCheck - rconServerMessageRetryPeriod

\* C13: on a fresh endpoint the n-th call of NextSequenceNumber, the calls
\* coming one after the other, returns (n - 1) mod 256: the value returned
\* right after 255 is 0, and the register holds what the next call returns
C13_SequenceCycles ==
    /\ \A n \in DOMAIN returned : returned[n] = (n - 1) % 256
    /\ seqNumber = Len(returned) % 256

\* 255 has been returned, and 0 right after it
C13_Witness ==
    /\ Len(returned) > 257
    /\ returned[256] = 255
    /\ returned[257] = 0
    /\ returned[258] = 1

\* C13 as the claim has it: what is returned is 0, 1, ..., 255, 1, 2, ..., the
\* value right after 255 being 1 and 0 being returned only once
C13_ZeroOnlyOnce ==
    \A n \in DOMAIN returned :
        returned[n] = IF n <= 256 THEN n - 1 ELSE ((n - 257) % 255) + 1

\* ParseHeader has been called on the bytes in the codec's hands
Headed == codec.stage \in {"header", "type", "seq", "command"}

\* 'B', 'E', four bytes and 0xff, and whatever follows
WellFormedHeader(b) == Len(b) >= 7 /\ b[1] = 66 /\ b[2] = 69 /\ b[7] = 255

\* C14: ParseHeader returns an error exactly for the inputs that do not begin
\* with 'B', 'E', four checksum bytes and 0xff, and for those that do it
\* returns the checksum the four bytes make, the least significant first
C14_HeaderErrors ==
    Headed =>
        LET b == codec.bytes
        IN  /\ (codec.header.err # Nil) <=> ~WellFormedHeader(b)
            /\ WellFormedHeader(b)
                  => codec.header.ph.Checksum =
                        [hi |-> b[5] + 256 * b[6], lo |-> b[3] + 256 * b[4]]

\* the packet in the codec's hands was made by one of the three builders
Built == codec.ask.kind \in {"login", "command", "message"}

\* C16: a packet made by MakeLoginResponsePacket, MakeCommandResponsePacket
\* or MakeServerMessagePacket goes through the readers: ParseHeader returns no
\* error and a checksum that is the CRC32 of the bytes from offset 6 on,
\* ParsePacketType returns the builder's type, and for the last two
\* ParseSequenceNumber returns the sequence number given and leaves the
\* payload given, which ParseCommand returns when there is one
C16_RoundTrip ==
    Built =>
        LET ask == codec.ask
        IN  /\ Headed =>
                  /\ codec.header.err = Nil
                  /\ ChecksumIEEE(SubSeq(codec.bytes, 7, Len(codec.bytes)))
                        = codec.header.ph.Checksum
            /\ codec.stage \in {"type", "seq", "command"} =>
                  /\ codec.type.err = Nil
                  /\ codec.type.val = CASE ask.kind = "login"   -> 0
                                        [] ask.kind = "command" -> 1
                                        [] ask.kind = "message" -> 2
            /\ (codec.stage \in {"seq", "command"} /\ ask.kind # "login") =>
                  /\ codec.seq.err = Nil
                  /\ codec.seq.val = ask.seq
                  /\ codec.seq.rest = ask.data
            /\ (codec.stage = "command" /\ ask.kind # "login" /\ ask.data # <<>>) =>
                  /\ codec.command.err = Nil
                  /\ codec.command.val = ask.data

\* the server message 7, "h" has been read back to its payload
C16_Witness ==
    /\ codec.stage = "command"
    /\ codec.ask = [kind |-> "message", seq |-> SeqM, data |-> Hello]
    /\ codec.seq.val = SeqM
    /\ codec.command.val = Hello

\* a datagram long enough to hold a checksum, and the checksum it holds is not
\* the CRC32 of its bytes from offset 6 on
BadChecksum(data) ==
    Len(data) >= 6 /\ Uint32(SubSeq(data, 3, 6)) # NewChecksum(Drop(data, 6))

C15_Dropped ==
    \A t \in Running :
        (t.pc # "start" /\ BadChecksum(t.data))
            => t.pc = "done" /\ t.out = <<>> /\ t.calls = <<>> /\ t.replies = <<>>

C15_Untouched ==
    \A t \in Running :
        (BadChecksum(t.data) /\ tasks' # tasks
           /\ (tasks' = Ends(t) \/ \E u \in BagToSet(tasks') : tasks' = Becomes(t, u)))
            => UNCHANGED <<tables, seqNumber>>

\* C15: a goroutine handling a datagram whose checksum field is not the CRC32
\* of the bytes from offset 6 on ends having written nothing and called no
\* command handler, whether or not its peer has a session, and none of its
\* steps changes the session table (the time a session has to live included),
\* the wrong-password, block and ack tables or the sequence counter
C15_BadChecksumDropped == []C15_Dropped /\ [][C15_Untouched]_vars

\* a corrupted datagram of a peer with a session has been dropped, and the
\* session still has the time to live the passing of time left it
C15_Witness ==
    \E t \in Running :
        /\ BadChecksum(t.data)
        /\ t.pc = "done"
        /\ t.clientConnected
        /\ t.log = "wrong packet Checksum"
        /\ cacheFound(clients, t.addr)
        /\ clients[t.addr].ttl < keepAliveCheck

\* a call of the command handler has not returned
Blocked == \E b \in Running : b.pc = "callback"

\* a keep-alive of peer P, who has a session, has been given its goroutine
\* while a call of the command handler has not returned
Pending(P) ==
    /\ Blocked
    /\ cacheFound(clients, P)
    /\ \E t \in Running : t.pc = "start" /\ t.addr = P /\ KeepAlive(t.data)

\* a goroutine has answered a keep-alive of peer P
Answered(P) ==
    \E t \in Running :
        /\ t.pc = "done" /\ t.addr = P /\ KeepAlive(t.data)
        /\ t.out = <<SendResponse(P, MakeCommandResponsePacket(t.data[9], <<>>))>>

\* C17: while a call of the command handler has not returned, and whether or
\* not it ever returns, the accept loop goes on to the next datagram as long
\* as peers send and a goroutine can be started, and a keep-alive of a peer
\* with a session that was given its goroutine is answered
C17_CallbackDoesNotStall ==
    /\ \A q \in 1..MaxBlocking :
          (Blocked /\ quota = q /\ BagCardinality(tasks) < MaxTasks) ~> (quota < q)
    /\ \A P \in {AddrA1, AddrA2} : Pending(P) ~> Answered(P)

\* the keep-alive of the second peer has been answered while the call of the
\* handler for the first peer's command has not returned
C17_Witness ==
    /\ Answered(AddrA2)
    /\ \E b \in Running : b.pc = "callback" /\ b.addr = AddrA1 /\ Command(b.data)

\* C18: a peer comes into the session table only by the step of a goroutine
\* that handles a login datagram of that peer (line 337); no other step, the
\* refresh of line 262 included, puts a peer into the table that is not in it
C18_OnlyLoginCreates ==
    [][ \A P \in cacheItems(clients') \ cacheItems(clients) :
            \E t \in Running : \E u \in BagToSet(tasks') :
                /\ Took(t, u)
                /\ t.addr = P
                /\ t.pc = "session"
                /\ typeOf(t.data) = LoginPacketType ]_vars

\* a datagram with a good checksum, the server message type and a sequence
\* number
ServerMessage(data) ==
    /\ Len(data) >= 9
    /\ data = Frame(<<ServerMessagePacketType, data[9]>> \o Drop(data, 9))

\* a goroutine that found a session for its peer and holds a server message
Acking(t) == t.pc # "start" /\ t.clientConnected /\ ServerMessage(t.data)

\* goroutine t sets an acknowledge in this step
Acks(t) == t.pc = "ack" /\ \E u \in BagToSet(tasks') : Took(t, u)

C19_Received ==
    \A t \in Running :
        Acking(t) => /\ t.pc \in {"refresh", "ack", "done"}
                     /\ t.out = <<>> /\ t.calls = <<>> /\ t.replies = <<>>

C19_Lifecycle ==
    LET was == serverMessageAcknowledges
        is  == serverMessageAcknowledges'
    IN  /\ \A t \in Running :
              /\ \A u \in BagToSet(tasks') :
                    (Took(t, u) /\ Acking(t) /\ t.pc = "refresh") => u.pc = "ack"
              /\ Acks(t) =>
                    /\ Acking(t)
                    /\ AckEntry(t.addr, t.data[9]) \in cacheItems(is)
                    /\ is[AckEntry(t.addr, t.data[9])] = [obj |-> TRUE, ttl |-> ackInterval]
        /\ \A key \in cacheItems(is) \ cacheItems(was) :
              \E t \in Running : Acks(t) /\ key = AckEntry(t.addr, t.data[9])
        /\ \A key \in cacheItems(was) :
              (key \notin cacheItems(is) \/ is[key] # was[key]) =>
                  \/ \E t \in Running : Acks(t) /\ key = AckEntry(t.addr, t.data[9])
                  \/ \E k \in DOMAIN casts :
                        /\ Checks(k)
                        /\ key = AckEntry(casts[k].addr, casts[k].seq)
                        /\ key \notin cacheItems(is)
                  \/ /\ ticks' < ticks
                     /\ \E d \in delays :
                           IF was[key].ttl >= d
                             THEN /\ key \in cacheItems(is)
                                  /\ is[key] = [was[key] EXCEPT !.ttl = @ - d]
                             ELSE key \notin cacheItems(is)

\* C19: a goroutine holding a server message with a good checksum and
\* sequence number s from a peer P with a session sets the acknowledge of
\* (P, s) with 15 seconds to live, and writes nothing; no other step puts an
\* acknowledge into the ack table; and an acknowledge in the table is taken
\* out or changed only by being received again, by the goroutine of a
\* broadcast for its peer and sequence number, which deletes it, or by the
\* passing of time, which takes it out when more than 15 seconds have passed
\* since it was set
C19_AckEntry == []C19_Received /\ [][C19_Lifecycle]_vars

\* the acknowledge of another sequence number is still there, two seconds or
\* more old, after the goroutine of the broadcast for its peer looked through
\* the acknowledges and after a keep-alive of the peer was answered
C19_Witness ==
    /\ AckEntry(AddrA1, SeqK) \in cacheItems(serverMessageAcknowledges)
    /\ serverMessageAcknowledges[AckEntry(AddrA1, SeqK)].ttl < ackInterval
    /\ \E k \in DOMAIN casts : casts[k].addr = AddrA1 /\ casts[k].i >= 1
    /\ \E t \in Running : KeepingAlive(t) /\ t.pc = "done" /\ t.addr = AddrA1

\* goroutine t takes a step or ends in this step
Steps(t) ==
    /\ tasks' # tasks
    /\ tasks' = Ends(t) \/ \E u \in BagToSet(tasks') : tasks' = Becomes(t, u)

GaveUp(k) == casts[k].pc \in {"evict", "done"} /\ ~casts[k].receivedAcknowledge

C21_AllAttempts ==
    \A k \in DOMAIN casts :
        /\ GaveUp(k) => Len(casts[k].out) = rconServerMessageTries
        /\ (GaveUp(k) /\ casts[k].pc = "done") => casts[k].i = rconServerMessageTries

C21_OwnEntryOnly ==
    \A k \in DOMAIN casts :
        Checks(k) =>
            LET own == AckEntry(casts[k].addr, casts[k].seq)
                was == cacheItems(serverMessageAcknowledges)
                is  == cacheItems(serverMessageAcknowledges')
            IN  /\ is = was \ {own}
                /\ \A key \in is :
                      serverMessageAcknowledges'[key] = serverMessageAcknowledges[key]
                /\ (own \notin was /\ ~casts[k].receivedAcknowledge)
                      => /\ ~casts'[k].receivedAcknowledge
                         /\ casts'[k].i = casts[k].i + 1
                         /\ casts'[k].pc \in {"send", "evict"}

C21_Evicts ==
    \A k \in DOMAIN casts :
        (casts[k].pc = "evict" /\ casts'[k].pc = "done")
            => ~cacheFound(clients', casts[k].addr)

\* C21: when the goroutine of a broadcast for peer B and sequence number s
\* looks through the acknowledges, it deletes the entry of (B, s) and no
\* other, and the entries of other peers or other sequence numbers do not end
\* its retries: without an entry of (B, s) it goes on to its next attempt, and
\* a goroutine that never found one has written 5 times and deletes the
\* session of its peer
C21_ExactMatch == []C21_AllAttempts /\ [][C21_OwnEntryOnly /\ C21_Evicts]_vars

\* the goroutine for the second peer has made its 5 attempts and deleted the
\* peer's session while the first peer's acknowledge of the same sequence
\* number is in the ack table
C21_Witness ==
    \E k \in DOMAIN casts :
        /\ casts[k].addr = AddrA2
        /\ casts[k].pc = "done"
        /\ ~casts[k].receivedAcknowledge
        /\ Len(casts[k].out) = rconServerMessageTries
        /\ ~cacheFound(clients, AddrA2)
        /\ AckEntry(AddrA1, casts[k].seq) \in cacheItems(serverMessageAcknowledges)

\* a goroutine of Broadcast that is past its first write
Wrote(k) == casts[k].pc \in {"sleep", "check", "evict", "done"} \/ casts[k].i > 0

C22_WritesFirst ==
    \A k \in DOMAIN casts :
        /\ Wrote(k) => Len(casts[k].out) >= 1
        /\ (casts[k].pc = "done" /\ casts[k].receivedAcknowledge /\ casts[k].i = 0)
              => casts[k].out = <<[to |-> casts[k].addr, data |-> casts[k].data]>>

C22_Consumes ==
    \A k \in DOMAIN casts :
        LET own == AckEntry(casts[k].addr, casts[k].seq)
        IN  ( /\ Checks(k)
              /\ casts[k].stale
              /\ casts[k].i = 0
              /\ own \in cacheItems(serverMessageAcknowledges) )
                => /\ Len(casts[k].out) = 1
                   /\ casts'[k].pc = "done"
                   /\ casts'[k].receivedAcknowledge
                   /\ casts'[k].out = casts[k].out
                   /\ own \notin cacheItems(serverMessageAcknowledges')
                   /\ clients' = clients

\* C22: a goroutine of Broadcast writes to its peer before it looks at the
\* ack table; when an acknowledge of its peer P and sequence number s was in
\* the table at the call of Broadcast and is still there, unexpired, when the
\* goroutine looks for the first time, the goroutine deletes it and ends
\* having written to P once, with P's session left as it is
C22_StaleCounts == []C22_WritesFirst /\ [][C22_Consumes]_vars

\* the acknowledge was 2 seconds or more old when Broadcast was called, and
\* the goroutine took it after one write, the peer having its session
C22_Witness ==
    \E k \in DOMAIN casts :
        /\ casts[k].stale
        /\ casts[k].pc = "done"
        /\ casts[k].receivedAcknowledge
        /\ Len(casts[k].out) = 1
        /\ ticks <= MaxStaleAdvance - 2
        /\ serverMessageAcknowledges = NoItems
        /\ cacheFound(clients, casts[k].addr)

\* every acknowledge that was in the table at the call of Broadcast ends the
\* retries at the first look: the goroutine never comes to a second attempt
C22_StaleAlwaysCounts ==
    \A k \in DOMAIN casts :
        casts[k].stale
            => /\ casts[k].i = 0
               /\ casts[k].pc # "evict"
               /\ Len(casts[k].out) <= 1

\* a goroutine that found no session for its peer and holds a login datagram
\* with a good checksum and nothing after the type byte
BareLogin(t) ==
    /\ t.pc # "start"
    /\ ~t.clientConnected
    /\ t.data = Frame(<<LoginPacketType>>)

C23_Dropped ==
    \A t \in Running :
        BareLogin(t) => /\ t.pc = "done"
                        /\ t.out = <<>> /\ t.calls = <<>> /\ t.replies = <<>>
                        /\ t.times = 0

C23_Untouched ==
    \A t \in Running :
        /\ \A u \in BagToSet(tasks') :
              (Took(t, u) /\ BareLogin(u)) => UNCHANGED <<tables, seqNumber>>
        /\ (BareLogin(t) /\ tasks' # tasks /\ tasks' = Ends(t))
              => UNCHANGED <<tables, seqNumber>>

\* C23: a goroutine handling a login datagram with a good checksum and no
\* byte after the type byte, from a peer without a session, ends without
\* having come to handleAuthentication: it writes nothing, and none of its
\* steps changes the session, wrong-password, block and ack tables, whatever
\* the configured password, the empty string included
C23_BareLoginDropped == []C23_Dropped /\ [][C23_Untouched]_vars

\* the login without a password was dropped by a server whose password is the
\* empty string: the peer has no session and no wrong password was counted
C23_Witness ==
    \E t \in Running :
        /\ BareLogin(t)
        /\ password = <<>>
        /\ t.pc = "done"
        /\ t.log = "error reading password"
        /\ ~cacheFound(clients, t.addr)
        /\ ~cacheFound(wrongPasswordCounter, HostOf(t.addr))

====
